---- MODULE Spec2Model ----
(***************************************************************************)
(* The pane_grid layout tree (native/src/widget/pane_grid/node.rs): a      *)
(* binary tree of Split nodes and Pane leaves, its structural edits (find, *)
(* find_split, split, resize, remove) and its geometry projections         *)
(* (pane_regions, split_regions), and the geometry cache of a canvas layer *)
(* (wgpu/src/widget/canvas/layer/cache.rs).                                *)
(*                                                                         *)
(* f32 values are modelled as integers: a ratio is a number of millionths  *)
(* (RatioUnit = 1.0), coordinates and extents are whole pixels.            *)
(* A `&mut Node` handed out by find/find_split is modelled as the path     *)
(* (a sequence of "a"/"b") from the root to the node it refers to.         *)
(***************************************************************************)
EXTENDS Integers, Sequences, FiniteSets, TLC

VARIABLES tree, last, cache, frames

vars == <<tree, last, cache, frames>>

\* ------------------------------------------------------------------ bounds

\* The largest number of leaves a tree is grown to.
MaxPanes == 3

\* The width of the viewport, and its larger height.
MaxExtent == 8

\* The largest spacing handed to the projections.
MaxSpacing == 2

\* The largest number of frames a cache is followed over.
MaxFrames == 4

\* The largest number of leaves of the trees the searches are run over.
MaxLeaves == 4

\* 1.0 as a ratio: ratios are counted in millionths.
RatioUnit == 1000000

\* ratio: 0.5 of Node::split.
HalfRatio == 500000

PaneIds == 1 .. MaxPanes

SplitIds == 1 .. (MaxPanes - 1)

AxisValues == {"Horizontal", "Vertical"}

\* The percentages handed to resize: 0.25, 0.5, and 1.25 (resize validates nothing).
Ratios == {250000, HalfRatio, 1250000}

Spacings == 0 .. MaxSpacing

Sizes == {[width |-> MaxExtent, height |-> h] : h \in {MaxExtent \div 2, MaxExtent}}

\* ------------------------------------------------------------------ Option

None == [some |-> FALSE]

Some(v) == [some |-> TRUE, val |-> v]

\* ------------------------------------------------------------------ Node

PaneNode(p) == [kind |-> "Pane", pane |-> p]

SplitNode(id, axis, ratio, a, b) ==
    [kind |-> "Split", id |-> id, axis |-> axis, ratio |-> ratio, a |-> a, b |-> b]

IsSplit(n) == n.kind = "Split"

\* The node a path refers to.
RECURSIVE NodeAt(_, _)
NodeAt(n, path) ==
    IF path = <<>> THEN n
    ELSE IF Head(path) = "a" THEN NodeAt(n.a, Tail(path))
    ELSE NodeAt(n.b, Tail(path))

\* Assignment through a `&mut Node`: the tree with the node at path replaced.
RECURSIVE WriteAt(_, _, _)
WriteAt(n, path, new) ==
    IF path = <<>> THEN new
    ELSE IF Head(path) = "a"
         THEN [n EXCEPT !.a = WriteAt(n.a, Tail(path), new)]
         ELSE [n EXCEPT !.b = WriteAt(n.b, Tail(path), new)]

\* Option<&mut Node> of a child, seen from the parent.
Under(dir, opt) == IF opt.some THEN Some(<<dir>> \o opt.val) ELSE None

\* find that never looks into child b.
RECURSIVE find_a_only(_, _)
find_a_only(self, p) ==
    IF IsSplit(self)
    THEN Under("a", find_a_only(self.a, p))
    ELSE IF self.pane = p THEN Some(<<>>) ELSE None

RECURSIVE find(_, _)
find(self, p) ==
    IF IsSplit(self)
    THEN LET ra == find(self.a, p)
         IN  IF ra.some THEN Under("a", ra) ELSE Under("b", find(self.b, p))
    ELSE IF self.pane = p THEN Some(<<>>) ELSE None

\* find_split that searches the children of a Split before it looks at the
\* Split's own id.
RECURSIVE find_split_children_first(_, _)
find_split_children_first(self, s) ==
    IF IsSplit(self)
    THEN LET ra == find_split_children_first(self.a, s)
             rb == find_split_children_first(self.b, s)
         IN  IF ra.some THEN Under("a", ra)
             ELSE IF rb.some THEN Under("b", rb)
             ELSE IF self.id = s THEN Some(<<>>) ELSE None
    ELSE None

RECURSIVE find_split(_, _)
find_split(self, s) ==
    IF IsSplit(self) /\ self.id = s THEN Some(<<>>)
    ELSE IF IsSplit(self)
    THEN LET ra == find_split(self.a, s)
         IN  IF ra.some THEN Under("a", ra) ELSE Under("b", find_split(self.b, s))
    ELSE None

\* split that puts the new node first and the old node second.
split_swapped(self, id, axis, new_node) == SplitNode(id, axis, HalfRatio, new_node, self)

\* split that clones the old node into both children.
split_cloned(self, id, axis, new_node) == SplitNode(id, axis, HalfRatio, self, self)

split(self, id, axis, new_node) == SplitNode(id, axis, HalfRatio, self, new_node)

\* resize that writes 1 - percentage, the share of child b, as the ratio.
RECURSIVE resize_inverted(_, _, _)
resize_inverted(self, s, percentage) ==
    IF IsSplit(self)
    THEN IF self.id = s
         THEN [node |-> [self EXCEPT !.ratio = RatioUnit - percentage], ret |-> TRUE]
         ELSE LET ra == resize_inverted(self.a, s, percentage)
              IN  IF ra.ret
                  THEN [node |-> [self EXCEPT !.a = ra.node], ret |-> TRUE]
                  ELSE LET rb == resize_inverted(self.b, s, percentage)
                       IN  [node |-> [self EXCEPT !.a = ra.node, !.b = rb.node],
                            ret |-> rb.ret]
    ELSE [node |-> self, ret |-> FALSE]

\* resize that writes the first Split it meets, whatever its id.
resize_any_split(self, s, percentage) ==
    IF IsSplit(self)
    THEN [node |-> [self EXCEPT !.ratio = percentage], ret |-> TRUE]
    ELSE [node |-> self, ret |-> FALSE]

\* resize that never looks into child b.
RECURSIVE resize_a_only(_, _, _)
resize_a_only(self, s, percentage) ==
    IF IsSplit(self)
    THEN IF self.id = s
         THEN [node |-> [self EXCEPT !.ratio = percentage], ret |-> TRUE]
         ELSE LET ra == resize_a_only(self.a, s, percentage)
              IN  [node |-> [self EXCEPT !.a = ra.node], ret |-> ra.ret]
    ELSE [node |-> self, ret |-> FALSE]

RECURSIVE resize(_, _, _)
resize(self, s, percentage) ==
    IF IsSplit(self)
    THEN IF self.id = s
         THEN [node |-> [self EXCEPT !.ratio = percentage], ret |-> TRUE]
         ELSE LET ra == resize(self.a, s, percentage)
              IN  IF ra.ret
                  THEN [node |-> [self EXCEPT !.a = ra.node], ret |-> TRUE]
                  ELSE LET rb == resize(self.b, s, percentage)
                       IN  [node |-> [self EXCEPT !.a = ra.node, !.b = rb.node],
                            ret |-> rb.ret]
    ELSE [node |-> self, ret |-> FALSE]

pane(self) == IF IsSplit(self) THEN None ELSE Some(self.pane)

\* first_pane that descends into child b.
RECURSIVE first_pane_b(_)
first_pane_b(self) == IF IsSplit(self) THEN first_pane_b(self.b) ELSE self.pane

RECURSIVE first_pane(_)
first_pane(self) == IF IsSplit(self) THEN first_pane(self.a) ELSE self.pane

\* remove that collapses a Split as soon as a child is a leaf, whatever its pane.
RECURSIVE remove_any_leaf(_, _)
remove_any_leaf(self, p) ==
    IF IsSplit(self)
    THEN IF pane(self.a).some
         THEN [node |-> self.b, ret |-> Some(first_pane(self.b))]
         ELSE IF pane(self.b).some
         THEN [node |-> self.a, ret |-> Some(first_pane(self.a))]
         ELSE LET ra == remove_any_leaf(self.a, p)
              IN  IF ra.ret.some
                  THEN [node |-> [self EXCEPT !.a = ra.node], ret |-> ra.ret]
                  ELSE LET rb == remove_any_leaf(self.b, p)
                       IN  [node |-> [self EXCEPT !.a = ra.node, !.b = rb.node],
                            ret |-> rb.ret]
    ELSE [node |-> self, ret |-> None]

\* remove that reports a root leaf holding the pane as removed.
RECURSIVE remove_reports_leaf(_, _)
remove_reports_leaf(self, p) ==
    IF IsSplit(self)
    THEN IF pane(self.a) = Some(p)
         THEN [node |-> self.b, ret |-> Some(first_pane(self.b))]
         ELSE IF pane(self.b) = Some(p)
         THEN [node |-> self.a, ret |-> Some(first_pane(self.a))]
         ELSE LET ra == remove_reports_leaf(self.a, p)
              IN  IF ra.ret.some
                  THEN [node |-> [self EXCEPT !.a = ra.node], ret |-> ra.ret]
                  ELSE LET rb == remove_reports_leaf(self.b, p)
                       IN  [node |-> [self EXCEPT !.a = ra.node, !.b = rb.node],
                            ret |-> rb.ret]
    ELSE [node |-> self, ret |-> IF self.pane = p THEN Some(p) ELSE None]

\* remove that never recurses into child b.
RECURSIVE remove_a_only(_, _)
remove_a_only(self, p) ==
    IF IsSplit(self)
    THEN IF pane(self.a) = Some(p)
         THEN [node |-> self.b, ret |-> Some(first_pane(self.b))]
         ELSE IF pane(self.b) = Some(p)
         THEN [node |-> self.a, ret |-> Some(first_pane(self.a))]
         ELSE LET ra == remove_a_only(self.a, p)
              IN  [node |-> [self EXCEPT !.a = ra.node], ret |-> ra.ret]
    ELSE [node |-> self, ret |-> None]

\* remove that keeps the matching child and drops its sibling.
RECURSIVE remove_keeps_target(_, _)
remove_keeps_target(self, p) ==
    IF IsSplit(self)
    THEN IF pane(self.a) = Some(p)
         THEN [node |-> self.a, ret |-> Some(first_pane(self.a))]
         ELSE IF pane(self.b) = Some(p)
         THEN [node |-> self.b, ret |-> Some(first_pane(self.b))]
         ELSE LET ra == remove_keeps_target(self.a, p)
              IN  IF ra.ret.some
                  THEN [node |-> [self EXCEPT !.a = ra.node], ret |-> ra.ret]
                  ELSE LET rb == remove_keeps_target(self.b, p)
                       IN  [node |-> [self EXCEPT !.a = ra.node, !.b = rb.node],
                            ret |-> rb.ret]
    ELSE [node |-> self, ret |-> None]

RECURSIVE remove(_, _)
remove(self, p) ==
    IF IsSplit(self)
    THEN IF pane(self.a) = Some(p)
         THEN [node |-> self.b, ret |-> Some(first_pane(self.b))]
         ELSE IF pane(self.b) = Some(p)
         THEN [node |-> self.a, ret |-> Some(first_pane(self.a))]
         ELSE LET ra == remove(self.a, p)
              IN  IF ra.ret.some
                  THEN [node |-> [self EXCEPT !.a = ra.node], ret |-> ra.ret]
                  ELSE LET rb == remove(self.b, p)
                       IN  [node |-> [self EXCEPT !.a = ra.node, !.b = rb.node],
                            ret |-> rb.ret]
    ELSE [node |-> self, ret |-> None]

\* ------------------------------------------------------------------ geometry

Rectangle(x, y, width, height) == [x |-> x, y |-> y, width |-> width, height |-> height]

\* Axis::split, the partition function of the specification's section 6: a
\* gutter of width spacing runs between the two parts along the axis, and the
\* usable space (the extent less the gutter) goes to the parts as
\* ratio : (1 - ratio). Vertical divides the width, Horizontal the height.
axis_split(axis, rectangle, ratio, spacing) ==
    IF axis = "Vertical"
    THEN LET usable  == rectangle.width - spacing
             width_a == (usable * ratio) \div RatioUnit
         IN  << [rectangle EXCEPT !.width = width_a],
                [rectangle EXCEPT !.x = rectangle.x + width_a + spacing,
                                  !.width = usable - width_a] >>
    ELSE LET usable   == rectangle.height - spacing
             height_a == (usable * ratio) \div RatioUnit
         IN  << [rectangle EXCEPT !.height = height_a],
                [rectangle EXCEPT !.y = rectangle.y + height_a + spacing,
                                  !.height = usable - height_a] >>

\* HashMap::insert on a map kept as a set of <<key, value>> entries: an entry
\* with the same key is replaced.
insert(map, key, value) == {e \in map : e[1] # key} \cup {<<key, value>>}

\* compute_regions that never descends into child b.
RECURSIVE compute_regions_a_only(_, _, _, _)
compute_regions_a_only(self, spacing, current, regions) ==
    IF IsSplit(self)
    THEN LET parts == axis_split(self.axis, current, self.ratio, spacing)
         IN  compute_regions_a_only(self.a, spacing, parts[1], regions)
    ELSE insert(regions, self.pane, current)

\* compute_regions that hands region_a to both children.
RECURSIVE compute_regions_same_part(_, _, _, _)
compute_regions_same_part(self, spacing, current, regions) ==
    IF IsSplit(self)
    THEN LET parts == axis_split(self.axis, current, self.ratio, spacing)
             done_a == compute_regions_same_part(self.a, spacing, parts[1], regions)
         IN  compute_regions_same_part(self.b, spacing, parts[1], done_a)
    ELSE insert(regions, self.pane, current)

RECURSIVE compute_regions(_, _, _, _)
compute_regions(self, spacing, current, regions) ==
    IF IsSplit(self)
    THEN LET parts == axis_split(self.axis, current, self.ratio, spacing)
             done_a == compute_regions(self.a, spacing, parts[1], regions)
         IN  compute_regions(self.b, spacing, parts[2], done_a)
    ELSE insert(regions, self.pane, current)

\* compute_splits that hands region_a to both children.
RECURSIVE compute_splits_same_part(_, _, _, _)
compute_splits_same_part(self, spacing, current, splits) ==
    IF IsSplit(self)
    THEN LET parts == axis_split(self.axis, current, self.ratio, spacing)
             own    == insert(splits, self.id,
                              [axis |-> self.axis, rectangle |-> current,
                               ratio |-> self.ratio])
             done_a == compute_splits_same_part(self.a, spacing, parts[1], own)
         IN  compute_splits_same_part(self.b, spacing, parts[1], done_a)
    ELSE splits

\* compute_splits that records region_a, the divided rectangle, for a Split.
RECURSIVE compute_splits_divided(_, _, _, _)
compute_splits_divided(self, spacing, current, splits) ==
    IF IsSplit(self)
    THEN LET parts == axis_split(self.axis, current, self.ratio, spacing)
             own    == insert(splits, self.id,
                              [axis |-> self.axis, rectangle |-> parts[1],
                               ratio |-> self.ratio])
             done_a == compute_splits_divided(self.a, spacing, parts[1], own)
         IN  compute_splits_divided(self.b, spacing, parts[2], done_a)
    ELSE splits

RECURSIVE compute_splits(_, _, _, _)
compute_splits(self, spacing, current, splits) ==
    IF IsSplit(self)
    THEN LET parts == axis_split(self.axis, current, self.ratio, spacing)
             own    == insert(splits, self.id,
                              [axis |-> self.axis, rectangle |-> current,
                               ratio |-> self.ratio])
             done_a == compute_splits(self.a, spacing, parts[1], own)
         IN  compute_splits(self.b, spacing, parts[2], done_a)
    ELSE splits

pane_regions(self, spacing, size) ==
    compute_regions(self, spacing, Rectangle(0, 0, size.width, size.height), {})

split_regions(self, spacing, size) ==
    compute_splits(self, spacing, Rectangle(0, 0, size.width, size.height), {})

\* One call of the closure of splits() that never pushes child b.
RECURSIVE splits_next_a_only(_, _)
splits_next_a_only(root, unvisited_nodes) ==
    IF unvisited_nodes = <<>>
    THEN [unvisited_nodes |-> <<>>, ret |-> None]
    ELSE LET n    == Len(unvisited_nodes)
             at   == unvisited_nodes[n]
             rest == SubSeq(unvisited_nodes, 1, n - 1)
         IN  IF IsSplit(NodeAt(root, at))
             THEN [unvisited_nodes |-> rest \o << at \o <<"a">> >>,
                   ret |-> Some(NodeAt(root, at).id)]
             ELSE splits_next_a_only(root, rest)

\* One call of the closure of splits() that leaves a leaf it meets on the
\* list and returns None.
splits_next_keeps_pane(root, unvisited_nodes) ==
    IF unvisited_nodes = <<>>
    THEN [unvisited_nodes |-> <<>>, ret |-> None]
    ELSE LET n    == Len(unvisited_nodes)
             at   == unvisited_nodes[n]
             rest == SubSeq(unvisited_nodes, 1, n - 1)
         IN  IF IsSplit(NodeAt(root, at))
             THEN [unvisited_nodes |-> rest \o << at \o <<"a">>, at \o <<"b">> >>,
                   ret |-> Some(NodeAt(root, at).id)]
             ELSE [unvisited_nodes |-> unvisited_nodes, ret |-> None]

\* One call of the closure of splits() that pushes child b before child a.
RECURSIVE splits_next_b_pushed_first(_, _)
splits_next_b_pushed_first(root, unvisited_nodes) ==
    IF unvisited_nodes = <<>>
    THEN [unvisited_nodes |-> <<>>, ret |-> None]
    ELSE LET n    == Len(unvisited_nodes)
             at   == unvisited_nodes[n]
             rest == SubSeq(unvisited_nodes, 1, n - 1)
         IN  IF IsSplit(NodeAt(root, at))
             THEN [unvisited_nodes |-> rest \o << at \o <<"b">>, at \o <<"a">> >>,
                   ret |-> Some(NodeAt(root, at).id)]
             ELSE splits_next_b_pushed_first(root, rest)

\* One call of the closure of splits(): nodes are popped off the end of
\* unvisited_nodes until a Split is met, whose children are pushed (a, then b)
\* and whose id is returned; None when the list runs empty. The list holds
\* `&Node`s, as paths into the borrowed root.
RECURSIVE splits_next(_, _)
splits_next(root, unvisited_nodes) ==
    IF unvisited_nodes = <<>>
    THEN [unvisited_nodes |-> <<>>, ret |-> None]
    ELSE LET n    == Len(unvisited_nodes)
             at   == unvisited_nodes[n]
             rest == SubSeq(unvisited_nodes, 1, n - 1)
         IN  IF IsSplit(NodeAt(root, at))
             THEN [unvisited_nodes |-> rest \o << at \o <<"a">>, at \o <<"b">> >>,
                   ret |-> Some(NodeAt(root, at).id)]
             ELSE splits_next(root, rest)

\* ------------------------------------------------------------------ update

\* The functions a caller hands to update: exchange panes 1 and 2 (what a swap
\* of two panes does), set every ratio to 0.5, turn every axis, and replace
\* every Split by its first child.
Functions == {"swap", "rebalance", "flip", "collapse"}

\* f(node): what the function named f leaves in the place of node.
Apply(f, node) ==
    CASE f = "swap" ->
            IF IsSplit(node) THEN node
            ELSE IF node.pane = 1 THEN PaneNode(2)
            ELSE IF node.pane = 2 THEN PaneNode(1)
            ELSE node
      [] f = "rebalance" ->
            IF IsSplit(node) THEN [node EXCEPT !.ratio = HalfRatio] ELSE node
      [] f = "flip" ->
            IF IsSplit(node)
            THEN [node EXCEPT !.axis = IF @ = "Horizontal" THEN "Vertical"
                                       ELSE "Horizontal"]
            ELSE node
      [] OTHER ->
            IF IsSplit(node) THEN node.a ELSE node

\* update that applies f to a node before it descends into its children.
RECURSIVE update_pre_order(_, _, _, _)
update_pre_order(self, f, at, calls) ==
    LET called == Append(calls, [at |-> at, node |-> self])
        own    == Apply(f, self)
    IN  IF IsSplit(own)
        THEN LET done_a == update_pre_order(own.a, f, at \o <<"a">>, called)
                 done_b == update_pre_order(own.b, f, at \o <<"b">>, done_a.calls)
             IN  [node  |-> [own EXCEPT !.a = done_a.node, !.b = done_b.node],
                  calls |-> done_b.calls]
        ELSE [node |-> own, calls |-> called]

\* update(f) on the node at `at`. Gives the node as update leaves it and
\* `calls`, the calls of f made so far: where, and on what node.
RECURSIVE update(_, _, _, _)
update(self, f, at, calls) ==
    IF IsSplit(self)
    THEN LET done_a   == update(self.a, f, at \o <<"a">>, calls)
             done_b   == update(self.b, f, at \o <<"b">>, done_a.calls)
             children == [self EXCEPT !.a = done_a.node, !.b = done_b.node]
         IN  [node  |-> Apply(f, children),
              calls |-> Append(done_b.calls, [at |-> at, node |-> children])]
    ELSE [node  |-> Apply(f, self),
          calls |-> Append(calls, [at |-> at, node |-> self])]

\* ------------------------------------------------------------------ Hash

\* 100_000.0, the factor a ratio is multiplied by before it is hashed.
HashScale == 100000

\* The width of one step of the hashed ratio, 1/100,000, in the unit ratios
\* are counted in.
RatioStep == RatioUnit \div HashScale

\* `(ratio * 100_000.0) as u32`: the cast drops the fraction and saturates at
\* 0 for a negative value. (It also saturates at u32::MAX, for ratios above
\* 42,949: no ratio here comes near.)
quantize(ratio) ==
    IF ratio < 0 THEN 0 ELSE ratio \div RatioStep

\* What #[derive(Hash)] feeds for an Axis: the discriminant of the variant.
AxisDiscriminant(axis) == IF axis = "Horizontal" THEN 0 ELSE 1

\* Hash for Node that feeds the ratio as it is, not quantized.
RECURSIVE hash_full_precision(_, _)
hash_full_precision(self, state) ==
    IF IsSplit(self)
    THEN LET own    == state \o <<self.id, AxisDiscriminant(self.axis), self.ratio>>
             done_a == hash_full_precision(self.a, own)
         IN  hash_full_precision(self.b, done_a)
    ELSE state \o <<self.pane>>

\* Hash for Node; state is the sequence of values fed to the Hasher so far.
RECURSIVE hash(_, _)
hash(self, state) ==
    IF IsSplit(self)
    THEN LET own    == state \o <<self.id, AxisDiscriminant(self.axis),
                                  quantize(self.ratio)>>
             done_a == hash(self.a, own)
         IN  hash(self.b, done_a)
    ELSE state \o <<self.pane>>

\* ------------------------------------------------------------------ tree shape

\* Every position of a tree, as the path from its root.
RECURSIVE Paths(_)
Paths(n) ==
    IF IsSplit(n)
    THEN {<<>>} \cup {<<"a">> \o q : q \in Paths(n.a)}
                \cup {<<"b">> \o q : q \in Paths(n.b)}
    ELSE {<<>>}

LeafPaths(n) == {q \in Paths(n) : ~IsSplit(NodeAt(n, q))}

SplitPaths(n) == {q \in Paths(n) : IsSplit(NodeAt(n, q))}

PanesOf(n) == {NodeAt(n, q).pane : q \in LeafPaths(n)}

SplitsOf(n) == {NodeAt(n, q).id : q \in SplitPaths(n)}

\* ------------------------------------------------------------------ Cache

\* CacheState::Empty.
Empty == [kind |-> "Empty"]

\* CacheState::Filled { bounds, primitive }.
Filled(bounds, primitive) ==
    [kind |-> "Filled", bounds |-> bounds, primitive |-> primitive]

\* Cache::new().
new == [state |-> Empty]

\* Cache::clear.
clear(self) == [self EXCEPT !.state = Empty]

\* The Arc<Primitive> a redraw makes: the frame that was drawn (the count-th
\* made), of the size of the bounds, holding what the handler drew for state.
Primitive(count, current_bounds, state) ==
    [frame |-> count, width |-> current_bounds.width,
     height |-> current_bounds.height, state |-> state]

\* draw that hands out a stored primitive whatever the bounds it was drawn for.
draw_any_bounds(self, current_bounds, state, count) ==
    IF self.state.kind = "Filled"
    THEN [cache |-> self, frames |-> count, ret |-> self.state.primitive]
    ELSE LET primitive == Primitive(count + 1, current_bounds, state)
         IN  [cache  |-> [self EXCEPT !.state = Filled(current_bounds, primitive)],
              frames |-> count + 1,
              ret    |-> primitive]

\* Bind::draw on the cache `self`; count is the number of frames made so far.
\* Gives the cache as draw leaves it, the number of frames made, and the
\* primitive returned.
draw(self, current_bounds, state, count) ==
    IF self.state.kind = "Filled" /\ self.state.bounds = current_bounds
    THEN [cache |-> self, frames |-> count, ret |-> self.state.primitive]
    ELSE LET primitive == Primitive(count + 1, current_bounds, state)
         IN  [cache  |-> [self EXCEPT !.state = Filled(current_bounds, primitive)],
              frames |-> count + 1,
              ret    |-> primitive]

\* ------------------------------------------------------------------ state

Init ==
    /\ tree \in {PaneNode(p) : p \in PaneIds}
    /\ last = [op |-> "new"]
    /\ cache = new
    /\ frames = 0

\* find(pane) on the root.
FindPane(p) ==
    /\ last' = [op |-> "find", pane |-> p, prev |-> tree, ret |-> find(tree, p)]
    /\ UNCHANGED <<tree, cache, frames>>

\* find_split(split) on the root.
FindSplit(s) ==
    /\ last' = [op |-> "find_split", split |-> s, prev |-> tree,
                ret |-> find_split(tree, s)]
    /\ UNCHANGED <<tree, cache, frames>>

\* find(pane), then split on the node found, with a new pane as the sibling.
\* The owner mints the ids: neither id labels a node of the tree.
SplitPane(p, id, axis, q) ==
    LET at == find(tree, p)
    IN  /\ at.some
        /\ Cardinality(LeafPaths(tree)) < MaxPanes
        /\ id \notin SplitsOf(tree)
        /\ q \notin PanesOf(tree)
        /\ tree' = WriteAt(tree, at.val,
                           split(NodeAt(tree, at.val), id, axis, PaneNode(q)))
        /\ last' = [op |-> "split", via |-> "find", target |-> p, at |-> at.val, id |-> id,
                    axis |-> axis, new_pane |-> q, prev |-> tree]
        /\ UNCHANGED <<cache, frames>>

\* find_split(split), then split on the subtree found.
SplitSubtree(s, id, axis, q) ==
    LET at == find_split(tree, s)
    IN  /\ at.some
        /\ Cardinality(LeafPaths(tree)) < MaxPanes
        /\ id \notin SplitsOf(tree)
        /\ q \notin PanesOf(tree)
        /\ tree' = WriteAt(tree, at.val,
                           split(NodeAt(tree, at.val), id, axis, PaneNode(q)))
        /\ last' = [op |-> "split", via |-> "find_split", target |-> s, at |-> at.val, id |-> id,
                    axis |-> axis, new_pane |-> q, prev |-> tree]
        /\ UNCHANGED <<cache, frames>>

\* resize(split, percentage) on the root.
Resize(s, r) ==
    LET res == resize(tree, s, r)
    IN  /\ tree' = res.node
        /\ last' = [op |-> "resize", split |-> s, ratio |-> r, prev |-> tree,
                    ret |-> res.ret]
        /\ UNCHANGED <<cache, frames>>

\* remove(pane) on the root. `undo` remembers a split that came right before:
\* the pane it added and the tree it was applied to.
Remove(p) ==
    LET res == remove(tree, p)
    IN  /\ tree' = res.node
        /\ last' = [op |-> "remove", pane |-> p, prev |-> tree, ret |-> res.ret,
                    undo |-> IF last.op = "split"
                             THEN Some([new_pane |-> last.new_pane, via |-> last.via,
                                        before |-> last.prev])
                             ELSE None]
        /\ UNCHANGED <<cache, frames>>

\* pane_regions that also sets every ratio of the tree to 0.5.
PaneRegions_rebalancing(spacing, size) ==
    /\ last' = [op |-> "pane_regions", spacing |-> spacing, size |-> size,
                prev |-> tree, ret |-> pane_regions(tree, spacing, size)]
    /\ tree' = update(tree, "rebalance", <<>>, <<>>).node
    /\ UNCHANGED <<cache, frames>>

\* pane_regions(spacing, size) on the root.
PaneRegions(spacing, size) ==
    /\ last' = [op |-> "pane_regions", spacing |-> spacing, size |-> size,
                prev |-> tree, ret |-> pane_regions(tree, spacing, size)]
    /\ UNCHANGED <<tree, cache, frames>>

\* split_regions(spacing, size) on the root.
SplitRegions(spacing, size) ==
    /\ last' = [op |-> "split_regions", spacing |-> spacing, size |-> size,
                prev |-> tree, ret |-> split_regions(tree, spacing, size)]
    /\ UNCHANGED <<tree, cache, frames>>

\* splits() on the root: the iterator, with the root as its only unvisited
\* node. It borrows the tree: it lives in `last` until another call is made.
Splits ==
    /\ last' = [op |-> "splits", prev |-> tree, unvisited_nodes |-> << <<>> >>,
                pulled |-> FALSE, ret |-> None, yielded |-> <<>>]
    /\ UNCHANGED <<tree, cache, frames>>

\* next() on the iterator of splits(); yielded collects what it has returned.
SplitsNext ==
    /\ last.op = "splits"
    /\ LET res == splits_next(last.prev, last.unvisited_nodes)
       IN  last' = [last EXCEPT !.unvisited_nodes = res.unvisited_nodes,
                                !.pulled = TRUE,
                                !.ret = res.ret,
                                !.yielded = IF res.ret.some
                                            THEN Append(@, res.ret.val) ELSE @]
    /\ UNCHANGED <<tree, cache, frames>>

\* update(f) on the root.
Update(f) ==
    LET res == update(tree, f, <<>>, <<>>)
    IN  /\ tree' = res.node
        /\ last' = [op |-> "update", f |-> f, prev |-> tree, calls |-> res.calls]
        /\ UNCHANGED <<cache, frames>>

\* hash on the root, into a fresh Hasher. `earlier` remembers the tree a
\* resize that came right before was applied to.
Hash ==
    /\ last' = [op |-> "hash", prev |-> tree, ret |-> hash(tree, <<>>),
                earlier |-> IF last.op = "resize" THEN Some(last.prev) ELSE None]
    /\ UNCHANGED <<tree, cache, frames>>

Next ==
    \/ Hash
    \/ \E f \in Functions : Update(f)
    \/ Splits
    \/ SplitsNext
    \/ \E p \in PaneIds : FindPane(p)
    \/ \E s \in SplitIds : FindSplit(s)
    \/ \E p \in PaneIds, id \in SplitIds, axis \in AxisValues, q \in PaneIds :
          SplitPane(p, id, axis, q)
    \/ \E s \in SplitIds, id \in SplitIds, axis \in AxisValues, q \in PaneIds :
          SplitSubtree(s, id, axis, q)
    \/ \E s \in SplitIds, r \in Ratios : Resize(s, r)
    \/ \E p \in PaneIds : Remove(p)
    \/ \E spacing \in Spacings, size \in Sizes : PaneRegions(spacing, size)
    \/ \E spacing \in Spacings, size \in Sizes : SplitRegions(spacing, size)

Spec == Init /\ [][Next]_vars

\* ------------------------------------------------------------------ stating the claims

IsPrefix(s, t) == Len(s) <= Len(t) /\ SubSeq(t, 1, Len(s)) = s

\* The part of path t below its prefix s.
Below(s, t) == SubSeq(t, Len(s) + 1, Len(t))

Parent(q) == SubSeq(q, 1, Len(q) - 1)

Sibling(q) == Parent(q) \o << IF q[Len(q)] = "a" THEN "b" ELSE "a" >>

\* What a node holds itself, its children left out.
Label(n) ==
    IF IsSplit(n)
    THEN [kind |-> "Split", id |-> n.id, axis |-> n.axis, ratio |-> n.ratio]
    ELSE [kind |-> "Pane", pane |-> n.pane]

\* The positions of the leaves that hold pane p.
LeavesOf(n, p) == {q \in LeafPaths(n) : NodeAt(n, q).pane = p}

\* after is before with the subtree at position par replaced by the subtree
\* that was at position sub; every position outside par holds what it held.
Collapsed(before, after, par, sub) ==
    /\ Paths(after) = {q \in Paths(before) : ~IsPrefix(par, q)}
                      \cup {par \o Below(sub, q) :
                               q \in {x \in Paths(before) : IsPrefix(sub, x)}}
    /\ \A q \in Paths(before) :
          /\ ~IsPrefix(par, q) =>
                Label(NodeAt(after, q)) = Label(NodeAt(before, q))
          /\ IsPrefix(sub, q) =>
                Label(NodeAt(after, par \o Below(sub, q))) = Label(NodeAt(before, q))

\* C1: remove(p) on a root Split, p a leaf at any depth: exactly the parent
\* Split of p is replaced by p's sibling subtree, and every other node (the
\* ancestors, the unrelated Splits: id, axis, ratio, order of the children)
\* is as it was.
C1_RemoveCollapsesParent ==
    (last.op = "remove" /\ IsSplit(last.prev) /\ last.pane \in PanesOf(last.prev))
    => \E q \in LeavesOf(last.prev, last.pane) :
          Collapsed(last.prev, tree, Parent(q), Sibling(q))

\* A pane two levels down was removed, below an ancestor that stays.
C1_Witness ==
    /\ last.op = "remove"
    /\ IsSplit(last.prev)
    /\ \E q \in LeavesOf(last.prev, last.pane) : Len(q) >= 2
    /\ tree # last.prev

\* The leaf reached from position sub by descending into child a only.
LeftmostUnder(n, sub) ==
    CHOOSE l \in LeafPaths(n) :
        IsPrefix(sub, l) /\ \A i \in (Len(sub) + 1) .. Len(l) : l[i] = "a"

\* C2: the pane remove returns is the leftmost leaf of the sibling subtree
\* that replaced the parent Split of the removed pane.
C2_RemoveReturnsLeftmost ==
    (last.op = "remove" /\ last.ret.some)
    => \E q \in LeavesOf(last.prev, last.pane) :
          /\ last.ret.val = NodeAt(last.prev, LeftmostUnder(last.prev, Sibling(q))).pane
          /\ last.ret.val = NodeAt(tree, LeftmostUnder(tree, Parent(q))).pane

\* A pane was removed whose sibling is a Split: the leftmost leaf lies deeper.
C2_Witness ==
    /\ last.op = "remove"
    /\ last.ret.some
    /\ \E q \in LeavesOf(last.prev, last.pane) : IsSplit(NodeAt(last.prev, Sibling(q)))

\* C3: split(id, axis, new_node) on the node N found by find or find_split
\* puts Split{id, axis, ratio 0.5, a = N as it was, b = new_node} in N's
\* place, and every node outside that place is as it was.
C3_SplitWrapsNode ==
    last.op = "split"
    => LET at == last.at
           N  == NodeAt(last.prev, at)
       IN  /\ Label(N) = IF last.via = "find"
                         THEN [kind |-> "Pane", pane |-> last.target]
                         ELSE [Label(N) EXCEPT !.kind = "Split", !.id = last.target]
           /\ Label(NodeAt(tree, at)) =
                 [kind |-> "Split", id |-> last.id, axis |-> last.axis, ratio |-> 500000]
           /\ NodeAt(tree, at).a = N
           /\ NodeAt(tree, at).b = [kind |-> "Pane", pane |-> last.new_pane]
           /\ {q \in Paths(tree) : ~IsPrefix(at, q)}
                 = {q \in Paths(last.prev) : ~IsPrefix(at, q)}
           /\ \A q \in Paths(last.prev) :
                 ~IsPrefix(at, q) =>
                    Label(NodeAt(tree, q)) = Label(NodeAt(last.prev, q))

\* A leaf below the root, found by find, was split.
C3_Witness ==
    /\ last.op = "split"
    /\ Len(last.at) >= 1
    /\ last.via = "find"

\* The entry of a key in a map kept as a set of entries.
Entries(map, key) == {e \in map : e[1] = key}

\* C4: resize(s, r) on a tree that holds a Split s returns true; afterwards
\* split_regions reports ratio r for s, and the tree has the shape it had and
\* every other Split the ratio it had.
C4_ResizeWritesRatio ==
    (last.op = "resize" /\ last.split \in SplitsOf(last.prev))
    => /\ last.ret = TRUE
       /\ \A spacing \in Spacings, size \in Sizes :
             \A e \in Entries(split_regions(tree, spacing, size), last.split) :
                e[2].ratio = last.ratio
       /\ \A spacing \in Spacings, size \in Sizes :
             Entries(split_regions(tree, spacing, size), last.split) # {}
       /\ Paths(tree) = Paths(last.prev)
       /\ \A q \in Paths(last.prev) :
             LET old == Label(NodeAt(last.prev, q))
             IN  Label(NodeAt(tree, q)) =
                    IF old.kind = "Split" /\ old.id = last.split
                    THEN [old EXCEPT !.ratio = last.ratio]
                    ELSE old

\* A Split below the root, in the b subtree, was given a ratio it did not have.
C4_Witness ==
    /\ last.op = "resize"
    /\ last.ret = TRUE
    /\ tree # last.prev
    /\ \E q \in SplitPaths(last.prev) :
          /\ NodeAt(last.prev, q).id = last.split
          /\ Len(q) >= 1
          /\ q[1] = "b"

\* C5: find(p) returns the node that is the leaf Pane(p) when p is present
\* exactly once, and nothing when p is not in the tree.
C5_FindReturnsLeaf ==
    last.op = "find"
    => /\ Cardinality(LeavesOf(last.prev, last.pane)) = 1
             => /\ last.ret.some
                /\ last.ret.val \in LeavesOf(last.prev, last.pane)
                /\ NodeAt(last.prev, last.ret.val) = PaneNode(last.pane)
       /\ last.pane \notin PanesOf(last.prev) => last.ret = None

\* find reached a leaf in the b subtree of the root.
C5_Witness ==
    /\ last.op = "find"
    /\ last.ret.some
    /\ Len(last.ret.val) >= 2
    /\ last.ret.val[1] = "b"

\* find was asked for a pane that is in no leaf of a tree with a Split.
C5_WitnessAbsent ==
    /\ last.op = "find"
    /\ IsSplit(last.prev)
    /\ last.pane \notin PanesOf(last.prev)
    /\ last.ret = None

\* C6: with unique pane ids, the key set of pane_regions(spacing, size) is
\* exactly the set of pane ids that are leaves, one rectangle for each.
C6_PaneRegionsKeys ==
    (last.op = "pane_regions"
        /\ Cardinality(PanesOf(last.prev)) = Cardinality(LeafPaths(last.prev)))
    => /\ {e[1] : e \in last.ret} = PanesOf(last.prev)
       /\ Cardinality(last.ret) = Cardinality(LeafPaths(last.prev))
       /\ \A p \in PanesOf(last.prev) : Cardinality(Entries(last.ret, p)) = 1

\* pane_regions was taken of a tree of three leaves.
C6_Witness ==
    /\ last.op = "pane_regions"
    /\ Cardinality(LeafPaths(last.prev)) >= 3
    /\ Cardinality(last.ret) >= 3

Viewport(size) == Rectangle(0, 0, size.width, size.height)

Area(r) == r.width * r.height

Min(i, j) == IF i <= j THEN i ELSE j

Max(i, j) == IF i >= j THEN i ELSE j

\* r is a rectangle (no negative extent) that lies within outer.
Inside(r, outer) ==
    /\ r.width >= 0 /\ r.height >= 0
    /\ r.x >= outer.x /\ r.y >= outer.y
    /\ r.x + r.width <= outer.x + outer.width
    /\ r.y + r.height <= outer.y + outer.height

\* Two rectangles share some area.
Overlap(r1, r2) ==
    /\ Min(r1.x + r1.width, r2.x + r2.width) > Max(r1.x, r2.x)
    /\ Min(r1.y + r1.height, r2.y + r2.height) > Max(r1.y, r2.y)

Lookup(map, key) == (CHOOSE e \in map : e[1] = key)[2]

\* The rectangle a node takes: a Pane's region, a Split's recorded rectangle.
Effective(n, q, regions, splits) ==
    IF IsSplit(NodeAt(n, q))
    THEN Lookup(splits, NodeAt(n, q).id).rectangle
    ELSE Lookup(regions, NodeAt(n, q).pane)

\* The gutter of the Split at q: the strip of width spacing that follows the
\* rectangle of child a along the axis.
Gutter(n, q, spacing, regions, splits) ==
    LET ra == Effective(n, q \o <<"a">>, regions, splits)
    IN  IF NodeAt(n, q).axis = "Vertical"
        THEN Rectangle(ra.x + ra.width, ra.y, spacing, ra.height)
        ELSE Rectangle(ra.x, ra.y + ra.height, ra.width, spacing)

\* The piece of the viewport a position accounts for: a leaf its region, a
\* Split its gutter.
Piece(n, q, spacing, regions, splits) ==
    IF IsSplit(NodeAt(n, q))
    THEN Gutter(n, q, spacing, regions, splits)
    ELSE Lookup(regions, NodeAt(n, q).pane)

RECURSIVE SumArea(_, _, _, _, _)
SumArea(n, qs, spacing, regions, splits) ==
    IF qs = {} THEN 0
    ELSE LET q == CHOOSE x \in qs : TRUE
         IN  Area(Piece(n, q, spacing, regions, splits))
                + SumArea(n, qs \ {q}, spacing, regions, splits)

\* The regions are pairwise non-overlapping rectangles inside the viewport
\* and, with the gutters between siblings, cover it without gaps: regions and
\* gutters are inside, no two share area, and their areas add up to it.
Tiles(n, spacing, size, regions) ==
    LET splits == split_regions(n, spacing, size)
    IN  /\ {e[1] : e \in regions} = PanesOf(n)
        /\ \A q \in Paths(n) :
              Inside(Piece(n, q, spacing, regions, splits), Viewport(size))
        /\ \A q1, q2 \in Paths(n) :
              q1 # q2 => ~Overlap(Piece(n, q1, spacing, regions, splits),
                                  Piece(n, q2, spacing, regions, splits))
        /\ SumArea(n, Paths(n), spacing, regions, splits) = Area(Viewport(size))

\* Every ratio of the tree lies in [0.0, 1.0].
RatiosInRange(n) ==
    \A q \in SplitPaths(n) : NodeAt(n, q).ratio >= 0 /\ NodeAt(n, q).ratio <= RatioUnit

\* Every Split's undivided rectangle is at least spacing long along its axis.
GuttersFit(n, spacing, size) ==
    \A e \in split_regions(n, spacing, size) :
        IF e[2].axis = "Vertical"
        THEN e[2].rectangle.width >= spacing
        ELSE e[2].rectangle.height >= spacing

\* C7 as stated: for every tree, spacing and size the regions of pane_regions
\* are pairwise non-overlapping, inside the viewport, and cover it with the
\* gutters.
C7_AsStated ==
    last.op = "pane_regions"
    => Tiles(last.prev, last.spacing, last.size, last.ret)

\* C7, amended: the same, for the trees whose ratios lie in [0.0, 1.0] and
\* whose Splits each have a rectangle at least spacing long along the axis.
C7_RegionsTile ==
    (last.op = "pane_regions"
        /\ RatiosInRange(last.prev)
        /\ GuttersFit(last.prev, last.spacing, last.size))
    => Tiles(last.prev, last.spacing, last.size, last.ret)

\* Regions of a tree of three leaves, split along both axes, with a gutter.
C7_Witness ==
    /\ last.op = "pane_regions"
    /\ last.spacing > 0
    /\ RatiosInRange(last.prev)
    /\ GuttersFit(last.prev, last.spacing, last.size)
    /\ Cardinality(LeafPaths(last.prev)) >= 3
    /\ {NodeAt(last.prev, q).axis : q \in SplitPaths(last.prev)} = AxisValues

\* The rectangle that reaches position path when current is handed to the root.
RECURSIVE RectAt(_, _, _, _)
RectAt(n, path, spacing, current) ==
    IF path = <<>> THEN current
    ELSE LET parts == axis_split(n.axis, current, n.ratio, spacing)
         IN  IF Head(path) = "a"
             THEN RectAt(n.a, Tail(path), spacing, parts[1])
             ELSE RectAt(n.b, Tail(path), spacing, parts[2])

\* C8: with unique split ids, split_regions(spacing, size) has exactly one
\* entry per Split node, holding its axis, its ratio and the undivided
\* rectangle of its subtree; the root Split has {0, 0, width, height}.
C8_SplitRegionsEntries ==
    (last.op = "split_regions"
        /\ Cardinality(SplitsOf(last.prev)) = Cardinality(SplitPaths(last.prev)))
    => /\ Cardinality(last.ret) = Cardinality(SplitPaths(last.prev))
       /\ {e[1] : e \in last.ret} = SplitsOf(last.prev)
       /\ \A q \in SplitPaths(last.prev) :
             LET node == NodeAt(last.prev, q)
             IN  <<node.id,
                   [axis |-> node.axis,
                    rectangle |-> RectAt(last.prev, q, last.spacing, Viewport(last.size)),
                    ratio |-> node.ratio]>> \in last.ret
       /\ IsSplit(last.prev) =>
             Lookup(last.ret, last.prev.id).rectangle =
                [x |-> 0, y |-> 0, width |-> last.size.width, height |-> last.size.height]

\* split_regions was taken of a tree with a Split below the root Split.
C8_Witness ==
    /\ last.op = "split_regions"
    /\ Cardinality(last.ret) >= 2
    /\ last.spacing > 0

\* C9: split(new_id, axis, Pane(new_pane)) on the leaf found by find, then at
\* once remove(new_pane) on the root, gives back the tree before the split.
C9_SplitRemoveRoundTrip ==
    (last.op = "remove" /\ last.undo.some
        /\ last.undo.val.via = "find"
        /\ last.undo.val.new_pane = last.pane)
    => /\ tree = last.undo.val.before
       /\ Paths(tree) = Paths(last.undo.val.before)
       /\ \A q \in Paths(tree) :
             Label(NodeAt(tree, q)) = Label(NodeAt(last.undo.val.before, q))

\* A leaf below the root was split and the new pane removed at once.
C9_Witness ==
    /\ last.op = "remove"
    /\ last.undo.some
    /\ last.undo.val.via = "find"
    /\ last.undo.val.new_pane = last.pane
    /\ IsSplit(last.undo.val.before)
    /\ last.ret.some

\* Every pane id labels one leaf, every split id one internal node, every
\* Split has its two children, and there is one leaf more than Splits.
WellFormed(n) ==
    /\ \A q \in LeafPaths(n) : LeavesOf(n, NodeAt(n, q).pane) = {q}
    /\ \A q \in SplitPaths(n) :
          {x \in SplitPaths(n) : NodeAt(n, x).id = NodeAt(n, q).id} = {q}
    /\ \A q \in SplitPaths(n) :
          {x \in Paths(n) : Parent(x) = q /\ x # q} = {q \o <<"a">>, q \o <<"b">>}
    /\ Cardinality(LeafPaths(n)) = Cardinality(SplitPaths(n)) + 1

\* C10: from a single-pane tree, after any sequence of find + split with fresh
\* ids, resize and remove, the tree is well-formed.
C10_TreeWellFormed == WellFormed(tree)

\* A tree that was grown to three leaves and then lost one.
C10_Witness ==
    /\ last.op = "remove"
    /\ last.ret.some
    /\ Cardinality(LeafPaths(last.prev)) >= 3
    /\ IsSplit(tree)

\* C11: remove(p) of a pane that is no leaf of the tree returns nothing and
\* leaves the tree unchanged.
C11_RemoveAbsent ==
    (last.op = "remove" /\ last.pane \notin PanesOf(last.prev))
    => /\ last.ret = None
       /\ tree = last.prev

\* remove was asked for a pane that is in no leaf of a tree with a Split.
C11_Witness ==
    /\ last.op = "remove"
    /\ last.pane \notin PanesOf(last.prev)
    /\ Cardinality(SplitPaths(last.prev)) >= 1
    /\ last.ret = None

\* C12: resize(s, r) on a tree that holds no Split s (a single leaf too)
\* returns false and leaves the tree unchanged.
C12_ResizeAbsent ==
    (last.op = "resize" /\ last.split \notin SplitsOf(last.prev))
    => /\ last.ret = FALSE
       /\ tree = last.prev

\* resize was asked for a split id that no Split of a tree with a Split has.
C12_Witness ==
    /\ last.op = "resize"
    /\ IsSplit(last.prev)
    /\ last.split \notin SplitsOf(last.prev)
    /\ last.ret = FALSE

\* C13: remove(p) on the tree that is the single leaf Pane(p) returns nothing
\* and leaves the tree Pane(p).
C13_RemoveLastPane ==
    (last.op = "remove" /\ last.prev = [kind |-> "Pane", pane |-> last.pane])
    => /\ last.ret = None
       /\ tree = [kind |-> "Pane", pane |-> last.pane]

\* remove was called for the only pane of a single-leaf tree.
C13_Witness ==
    /\ last.op = "remove"
    /\ ~IsSplit(last.prev)
    /\ last.prev.pane = last.pane
    /\ tree = last.prev

\* ------------------------------------------------------------------ two-pane layouts

\* The trees of one Split over two panes, as a caller lays them out.
ScenarioTrees ==
    {SplitNode(1, axis, ratio, PaneNode(pa), PaneNode(pb)) :
        axis \in AxisValues, ratio \in {250000, HalfRatio, 750000},
        pa \in {1}, pb \in {2, 3}}

ScenarioSpacings == {0, 4, 10}

ScenarioSizes == {[width |-> w, height |-> h] : w \in {100, 200}, h \in {100, 50}}

InitScenario ==
    /\ tree \in ScenarioTrees
    /\ last = [op |-> "new"]
    /\ cache = new
    /\ frames = 0

NextScenario ==
    \/ \E spacing \in ScenarioSpacings, size \in ScenarioSizes : PaneRegions(spacing, size)
    \/ \E spacing \in ScenarioSpacings, size \in ScenarioSizes : SplitRegions(spacing, size)

\* The projections of a fixed two-pane tree over viewports of 100 and more pixels.
SpecScenario == InitScenario /\ [][NextScenario]_vars

\* C14: for Split{axis: Vertical, ratio: 0.5, a: Pane(A), b: Pane(B)} over a
\* 100x100 viewport with spacing 4, pane_regions is exactly
\* {A: {x:0, y:0, w:48, h:100}, B: {x:52, y:0, w:48, h:100}}.
C14_Scenario ==
    (/\ last.op = "pane_regions"
     /\ last.spacing = 4
     /\ last.size = [width |-> 100, height |-> 100]
     /\ IsSplit(last.prev)
     /\ last.prev.axis = "Vertical"
     /\ last.prev.ratio = 500000
     /\ ~IsSplit(last.prev.a) /\ ~IsSplit(last.prev.b))
    => last.ret =
          { <<last.prev.a.pane, [x |-> 0, y |-> 0, width |-> 48, height |-> 100]>>,
            <<last.prev.b.pane, [x |-> 52, y |-> 0, width |-> 48, height |-> 100]>> }

\* pane_regions(4, 100x100) was taken of the scenario's tree.
C14_Witness ==
    /\ last.op = "pane_regions"
    /\ last.spacing = 4
    /\ last.size = [width |-> 100, height |-> 100]
    /\ IsSplit(last.prev)
    /\ last.prev.axis = "Vertical"
    /\ last.prev.ratio = 500000
    /\ Cardinality(last.ret) = 2

\* The iterator of splits() has returned None.
SplitsEnded == last.op = "splits" /\ last.pulled /\ last.ret = None

\* C15: the sequence of splits() yields the id of every Split node exactly
\* once and nothing for a leaf, then ends: what it has yielded never repeats
\* an id or names an id of no Split, and once it has ended it has yielded as
\* many ids as there are Splits, each of them, and nothing is left to visit.
C15_SplitsYieldsEverySplit ==
    last.op = "splits"
    => /\ \A i, j \in 1 .. Len(last.yielded) :
             last.yielded[i] = last.yielded[j] => i = j
       /\ \A i \in 1 .. Len(last.yielded) : last.yielded[i] \in SplitsOf(last.prev)
       /\ (last.pulled /\ last.ret.some) =>
             last.ret.val = last.yielded[Len(last.yielded)]
       /\ SplitsEnded =>
             /\ Len(last.yielded) = Cardinality(SplitPaths(last.prev))
             /\ {last.yielded[i] : i \in 1 .. Len(last.yielded)} = SplitsOf(last.prev)
             /\ last.unvisited_nodes = <<>>

\* The iterator over a tree of two Splits has ended.
C15_Witness ==
    /\ SplitsEnded
    /\ Len(last.yielded) >= 2

\* whole is part_a, then a gutter of width spacing, then part_b along the
\* axis, edge by edge: part_a starts where whole starts, part_b starts spacing
\* after part_a ends and ends where whole ends, and across the axis all three
\* have the same extent.
JoinsWithGutter(axis, whole, part_a, part_b, spacing) ==
    IF axis = "Vertical"
    THEN /\ part_a.x = whole.x
         /\ part_b.x = part_a.x + part_a.width + spacing
         /\ part_b.x + part_b.width = whole.x + whole.width
         /\ part_a.y = whole.y /\ part_b.y = whole.y
         /\ part_a.height = whole.height /\ part_b.height = whole.height
    ELSE /\ part_a.y = whole.y
         /\ part_b.y = part_a.y + part_a.height + spacing
         /\ part_b.y + part_b.height = whole.y + whole.height
         /\ part_a.x = whole.x /\ part_b.x = whole.x
         /\ part_a.width = whole.width /\ part_b.width = whole.width

Extent(axis, r) == IF axis = "Vertical" THEN r.width ELSE r.height

\* The extent, along the axis of the Split at q, of the region of its child dir.
ChildExtent(n, q, dir, spacing, size) ==
    Extent(NodeAt(n, q).axis,
           Effective(n, q \o <<dir>>, pane_regions(n, spacing, size),
                     split_regions(n, spacing, size)))

\* The undivided rectangle of the Split at q is at least spacing long along
\* the Split's axis.
GutterFitsAt(n, q, spacing, size) ==
    Extent(NodeAt(n, q).axis,
           Lookup(split_regions(n, spacing, size), NodeAt(n, q).id).rectangle) >= spacing

\* Between two trees that differ in the ratio of the Split at q only: the
\* region of child a is no shorter, and that of child b no longer, in the
\* tree with the larger ratio.
MonotoneAt(lo, hi, q, spacing, size) ==
    /\ ChildExtent(lo, q, "a", spacing, size) <= ChildExtent(hi, q, "a", spacing, size)
    /\ ChildExtent(lo, q, "b", spacing, size) >= ChildExtent(hi, q, "b", spacing, size)

\* The position of the Split with id s.
SplitAt(n, s) == CHOOSE q \in SplitPaths(n) : NodeAt(n, q).id = s

\* C17 as stated: for a fixed tree, spacing and size and a Split s, the sizes on
\* either side of s change monotonically with the ratio given to resize(s, r).
C17_AsStated ==
    (last.op = "resize" /\ last.ret = TRUE)
    => LET q  == SplitAt(last.prev, last.split)
           r0 == NodeAt(last.prev, q).ratio
       IN  \A spacing \in Spacings, size \in Sizes :
              /\ r0 <= last.ratio => MonotoneAt(last.prev, tree, q, spacing, size)
              /\ last.ratio <= r0 => MonotoneAt(tree, last.prev, q, spacing, size)

\* C17, amended: the same, for the spacings and sizes with which the undivided
\* rectangle of s is at least spacing long along the axis of s.
C17_ResizeMonotone ==
    (last.op = "resize" /\ last.ret = TRUE)
    => LET q  == SplitAt(last.prev, last.split)
           r0 == NodeAt(last.prev, q).ratio
       IN  \A spacing \in Spacings, size \in Sizes :
              GutterFitsAt(last.prev, q, spacing, size)
              => /\ r0 <= last.ratio => MonotoneAt(last.prev, tree, q, spacing, size)
                 /\ last.ratio <= r0 => MonotoneAt(tree, last.prev, q, spacing, size)

\* A Split below the root was given a larger ratio, and with a gutter that
\* fits its child a grew and its child b shrank.
C17_Witness ==
    /\ last.op = "resize"
    /\ last.ret = TRUE
    /\ LET q == SplitAt(last.prev, last.split)
       IN  /\ Len(q) >= 1
           /\ NodeAt(last.prev, q).ratio < last.ratio
           /\ \E spacing \in Spacings \ {0}, size \in Sizes :
                 /\ GutterFitsAt(last.prev, q, spacing, size)
                 /\ ChildExtent(last.prev, q, "a", spacing, size)
                       < ChildExtent(tree, q, "a", spacing, size)
                 /\ ChildExtent(last.prev, q, "b", spacing, size)
                       > ChildExtent(tree, q, "b", spacing, size)

\* ------------------------------------------------------------------ nearby ratios

\* Ratios around 0.5, some closer to each other than 1/100,000.
NearRatios == {499990, 499995, HalfRatio, 500004, 500010}

NearTrees ==
    {SplitNode(1, "Vertical", r1, SplitNode(2, "Horizontal", r2, PaneNode(1), PaneNode(2)),
               PaneNode(3)) : r1 \in NearRatios, r2 \in NearRatios}

InitNear ==
    /\ tree \in NearTrees
    /\ last = [op |-> "new"]
    /\ cache = new
    /\ frames = 0

NextNear ==
    \/ \E s \in SplitIds, r \in NearRatios : Resize(s, r)
    \/ Hash

\* Layouts whose ratios drift by a few millionths between two hashes.
SpecNear == InitNear /\ [][NextNear]_vars

\* Two trees of the same shape, ids and axes.
SameButRatios(t1, t2) ==
    /\ Paths(t1) = Paths(t2)
    /\ \A q \in Paths(t1) :
          LET l1 == Label(NodeAt(t1, q))
              l2 == Label(NodeAt(t2, q))
          IN  IF l1.kind = "Split" /\ l2.kind = "Split"
              THEN [l1 EXCEPT !.ratio = 0] = [l2 EXCEPT !.ratio = 0]
              ELSE l1 = l2

Abs(i) == IF i < 0 THEN -i ELSE i

\* Every pair of corresponding ratios differs by less than 1/100,000.
RatiosWithin(t1, t2) ==
    \A q \in SplitPaths(t1) :
        Abs(NodeAt(t1, q).ratio - NodeAt(t2, q).ratio) < RatioStep

\* Every pair of corresponding ratios lies between the same two multiples of
\* 1/100,000: k/100,000 <= ratio < (k + 1)/100,000 for the same k.
RatiosInSameStep(t1, t2) ==
    \A q \in SplitPaths(t1) :
        \E k \in {NodeAt(t1, q).ratio \div RatioStep} :
            \A r \in {NodeAt(t1, q).ratio, NodeAt(t2, q).ratio} :
                k * RatioStep <= r /\ r < (k + 1) * RatioStep

\* C18 as stated: two trees of the same shape, ids and axes whose corresponding
\* ratios differ by less than 1/100,000 feed the hasher the same values.
C18_AsStated ==
    (last.op = "hash" /\ last.earlier.some
        /\ SameButRatios(last.earlier.val, last.prev)
        /\ RatiosWithin(last.earlier.val, last.prev))
    => last.ret = hash(last.earlier.val, <<>>)

\* C18, amended: they feed the hasher the same values when every two
\* corresponding ratios lie between the same two multiples of 1/100,000.
C18_HashQuantized ==
    (last.op = "hash" /\ last.earlier.some
        /\ SameButRatios(last.earlier.val, last.prev)
        /\ RatiosInSameStep(last.earlier.val, last.prev))
    => last.ret = hash(last.earlier.val, <<>>)

\* A tree was hashed after a resize that moved a ratio, within its step.
C18_Witness ==
    /\ last.op = "hash"
    /\ last.earlier.some
    /\ last.earlier.val # last.prev
    /\ SameButRatios(last.earlier.val, last.prev)
    /\ RatiosInSameStep(last.earlier.val, last.prev)
    /\ last.ret = hash(last.earlier.val, <<>>)

\* ------------------------------------------------------------------ update order

\* The places of calls where f was applied at or under position q.
CallsUnder(calls, q) == {i \in 1 .. Len(calls) : IsPrefix(q, calls[i].at)}

\* C19: update(f) applies f once to every node of the tree it is called on,
\* the root included; for every Split all calls in its a subtree come before
\* all calls in its b subtree, which come before the call on the Split itself;
\* the call on the root is the last.
C19_UpdatePostOrder ==
    last.op = "update" =>
        LET calls == last.calls
            n     == Len(calls)
        IN  /\ n = Cardinality(Paths(last.prev))
            /\ \A q \in Paths(last.prev) :
                  Cardinality({i \in 1 .. n : calls[i].at = q}) = 1
            /\ \A q \in SplitPaths(last.prev) :
                  \A i \in CallsUnder(calls, q \o <<"a">>),
                     j \in CallsUnder(calls, q \o <<"b">>),
                     k \in {k \in 1 .. n : calls[k].at = q} :
                        i < j /\ j < k
            /\ calls[n].at = <<>>
            /\ \A i \in 1 .. n :
                  Label(calls[i].node) = Label(NodeAt(last.prev, calls[i].at))

\* update ran over a tree with a Split under a Split.
C19_Witness ==
    /\ last.op = "update"
    /\ Cardinality(SplitPaths(last.prev)) >= 2
    /\ Len(last.calls) = Cardinality(Paths(last.prev))
    /\ last.calls[Len(last.calls)].at = <<>>
    /\ tree # last.prev

\* ------------------------------------------------------------------ the cache of a layer

\* The sizes a layer is laid out with.
LayerSizes == Sizes \cup {[width |-> MaxExtent \div 2, height |-> MaxExtent]}

\* The states of the program a layer is drawn for.
States == {"first", "second"}

InitCache ==
    /\ tree \in {PaneNode(1)}
    /\ last = [op |-> "new", redrawn |-> None, bounds |-> None, cleared |-> FALSE]
    /\ cache = new
    /\ frames = 0

\* cache.with(handler).draw(current_bounds, state). `last` also remembers the
\* primitive of the most recent redraw, the bounds of the most recent draw and
\* whether clear was called since; `was` is what it remembered before.
Draw(current_bounds, state) ==
    LET res == draw(cache, current_bounds, state, frames)
    IN  /\ frames < MaxFrames
        /\ cache' = res.cache
        /\ frames' = res.frames
        /\ last' = [op |-> "draw", current_bounds |-> current_bounds,
                    state |-> state, prev |-> cache, ret |-> res.ret,
                    invoked |-> res.frames # frames,
                    was |-> [redrawn |-> last.redrawn, bounds |-> last.bounds,
                             cleared |-> last.cleared],
                    redrawn |-> IF res.frames # frames THEN Some(res.ret)
                                ELSE last.redrawn,
                    bounds |-> Some(current_bounds),
                    cleared |-> FALSE]
        /\ UNCHANGED tree

\* cache.clear().
Clear ==
    /\ cache' = clear(cache)
    /\ last' = [op |-> "clear", prev |-> cache, redrawn |-> last.redrawn,
                bounds |-> last.bounds, cleared |-> TRUE]
    /\ UNCHANGED <<tree, frames>>

NextCache ==
    \/ \E current_bounds \in LayerSizes, state \in States : Draw(current_bounds, state)
    \/ Clear

\* A cache over any sequence of draw and clear calls.
SpecCache == InitCache /\ [][NextCache]_vars

\* C20: a draw invokes the handler's draw exactly when the cache is Empty,
\* which it is when it was never drawn or was cleared since the last draw, or
\* when the bounds it stores, those of the last draw, differ from the current
\* bounds; otherwise it returns the primitive of the most recent redraw.
C20_CacheRedraws ==
    last.op = "draw" =>
        LET never   == ~last.was.bounds.some
            changed == last.was.bounds.some
                       /\ last.was.bounds.val # last.current_bounds
        IN  /\ (last.prev.state = Empty) <=> (never \/ last.was.cleared)
            /\ last.prev.state # Empty => last.prev.state.bounds = last.was.bounds.val
            /\ last.invoked <=> (never \/ last.was.cleared \/ changed)
            /\ ~last.invoked =>
                  /\ last.was.redrawn.some
                  /\ last.ret = last.was.redrawn.val
            /\ cache.state = Filled(last.current_bounds, last.ret)

\* A draw for another program state, after a redraw for new bounds or after a
\* clear, returned the stored primitive without invoking the handler.
C20_Witness ==
    /\ last.op = "draw"
    /\ ~last.invoked
    /\ frames >= 2
    /\ last.was.redrawn.some
    /\ last.ret = last.was.redrawn.val
    /\ last.ret.state # last.state

\* ------------------------------------------------------------------ read-only projections

Projections == {"pane_regions", "split_regions", "splits"}

NextPull ==
    \/ /\ last.op # "splits"
       /\ \E p \in PaneIds, id \in SplitIds, axis \in AxisValues, q \in PaneIds :
             SplitPane(p, id, axis, q)
    \/ /\ last.op # "splits"
       /\ Splits
    \/ SplitsNext

\* The caller keeps pulling for as long as a pull changes anything.
SpecPull == Init /\ [][NextPull]_vars /\ WF_vars(SplitsNext)

\* The sequence of splits() has returned None and nothing is left to visit.
Exhausted == SplitsEnded /\ last.unvisited_nodes = <<>>

\* C22: every operation returns (each is evaluated to its result at every step
\* it is taken), and a sequence of splits() that is pulled again and again
\* comes to its end, with nothing left to visit, and stays ended.
C22_SplitsTerminates ==
    /\ (last.op = "splits") ~> Exhausted
    /\ [](Exhausted => []Exhausted)

\* The sequence over a tree of three panes is at its end after three pulls.
C22_Witness ==
    /\ Exhausted
    /\ Cardinality(LeafPaths(last.prev)) = 3
    /\ Len(last.yielded) = 2

\* ------------------------------------------------------------------ any tree

\* Every Node of n leaves over two pane ids, ids repeated or not (Node itself
\* keeps no id unique), with one axis and ratio.
RECURSIVE TreesWith(_)
TreesWith(n) ==
    IF n = 1
    THEN {PaneNode(p) : p \in {1, 2}}
    ELSE UNION {{SplitNode(id, "Horizontal", HalfRatio, a, b) :
                    id \in SplitIds, a \in TreesWith(k), b \in TreesWith(n - k)} :
                k \in 1 .. (n - 1)}

AnyTrees == UNION {TreesWith(n) : n \in 1 .. MaxLeaves}

InitAny ==
    /\ tree \in AnyTrees
    /\ last = [op |-> "new"]
    /\ cache = new
    /\ frames = 0

NextAny ==
    \/ \E p \in PaneIds : FindPane(p)
    \/ \E s \in SplitIds : FindSplit(s)

\* The searches, over every Node value.
SpecAny == InitAny /\ [][NextAny]_vars

\* Position q1 comes before q2 when a node is looked at before its children
\* and child a before child b.
Precedes(q1, q2) ==
    \/ IsPrefix(q1, q2) /\ q1 # q2
    \/ \E i \in 1 .. Min(Len(q1), Len(q2)) :
          /\ SubSeq(q1, 1, i - 1) = SubSeq(q2, 1, i - 1)
          /\ q1[i] = "a"
          /\ q2[i] = "b"

\* The positions of the Splits whose id is s.
SplitsWith(n, s) == {q \in SplitPaths(n) : NodeAt(n, q).id = s}

\* C23: find_split(s) returns nothing when no Split has the id s, and
\* otherwise the Split with that id that comes first when a Split is looked at
\* before its children and child a before child b.
C23_FindSplitFirstMatch ==
    last.op = "find_split" =>
        LET found == SplitsWith(last.prev, last.split)
        IN  /\ last.ret.some <=> found # {}
            /\ last.ret.some =>
                  /\ last.ret.val \in found
                  /\ \A q \in found \ {last.ret.val} : Precedes(last.ret.val, q)

\* find_split returned a Split that has, under its child a and under its
\* child b, another Split of the same id.
C23_Witness ==
    /\ last.op = "find_split"
    /\ last.ret.some
    /\ \E q \in SplitsWith(last.prev, last.split) :
          IsPrefix(last.ret.val \o <<"a">>, q)
    /\ \E q \in SplitsWith(last.prev, last.split) :
          IsPrefix(last.ret.val \o <<"b">>, q)

\* ------------------------------------------------------------------ the order of splits()

NextEmit ==
    \/ Splits
    \/ SplitsNext

\* splits() and its sequence, over every Node value.
SpecEmit == InitAny /\ [][NextEmit]_vars

\* Position q1 is emitted before q2 when a Split comes before everything
\* under it and everything under its child b before everything under its
\* child a.
EmittedBefore(q1, q2) ==
    \/ IsPrefix(q1, q2) /\ q1 # q2
    \/ \E i \in 1 .. Min(Len(q1), Len(q2)) :
          /\ SubSeq(q1, 1, i - 1) = SubSeq(q2, 1, i - 1)
          /\ q1[i] = "b"
          /\ q2[i] = "a"

\* The place of the Split at q in that order.
EmitRank(n, q) == 1 + Cardinality({r \in SplitPaths(n) : EmittedBefore(r, q)})

\* C24: splits() emits the ids in the order that has, at every Split, the
\* Split's own id first, then the ids of its b subtree, then those of its a
\* subtree: the i-th id emitted is that of the i-th Split in this order.
C24_SplitsOrder ==
    last.op = "splits" =>
        /\ Len(last.yielded) <= Cardinality(SplitPaths(last.prev))
        /\ \A q \in SplitPaths(last.prev) :
              EmitRank(last.prev, q) <= Len(last.yielded) =>
                  last.yielded[EmitRank(last.prev, q)] = NodeAt(last.prev, q).id
        /\ Exhausted => Len(last.yielded) = Cardinality(SplitPaths(last.prev))

\* The sequence has ended over a tree whose root has a Split of another id on
\* each side.
C24_Witness ==
    /\ Exhausted
    /\ IsSplit(last.prev)
    /\ IsSplit(last.prev.a)
    /\ IsSplit(last.prev.b)
    /\ last.prev.a.id # last.prev.b.id
    /\ last.yielded = <<last.prev.id, last.prev.b.id, last.prev.a.id>>

\* ------------------------------------------------------------------ what remove leaves

\* C25: after remove(p) has returned a pane, that pane is a leaf of the tree
\* and is not p, p is no leaf of the tree any more, the panes of the tree are
\* those it had but for p, and its Splits those it had but for the parent of
\* p's leaf.
C25_RemoveTakesPaneAndParent ==
    (last.op = "remove" /\ last.ret.some) =>
        /\ last.ret.val \in PanesOf(tree)
        /\ last.ret.val # last.pane
        /\ last.pane \notin PanesOf(tree)
        /\ PanesOf(tree) = PanesOf(last.prev) \ {last.pane}
        /\ \E q \in LeavesOf(last.prev, last.pane) :
              SplitsOf(tree) = SplitsOf(last.prev) \ {NodeAt(last.prev, Parent(q)).id}

\* A pane was removed from a tree of three panes and two Splits, one of which
\* stays.
C25_Witness ==
    /\ last.op = "remove"
    /\ last.ret.some
    /\ Cardinality(PanesOf(last.prev)) = 3
    /\ Cardinality(SplitsOf(last.prev)) = 2
    /\ Cardinality(PanesOf(tree)) = 2
    /\ Cardinality(SplitsOf(tree)) = 1

\* ------------------------------------------------------------------ splits() and split_regions

\* The keys of a map.
Keys(map) == {e[1] : e \in map}

\* C26: once the sequence of splits() has ended, the set of the ids it has
\* emitted is the key set of split_regions(spacing, size) of the same tree,
\* for every spacing and size.
C26_SplitsAreSplitRegionKeys ==
    (last.op = "splits" /\ Exhausted) =>
        \A spacing \in Spacings, size \in Sizes :
            {last.yielded[i] : i \in 1 .. Len(last.yielded)}
                = Keys(split_regions(last.prev, spacing, size))

\* The sequence has ended over a tree of two Splits, which split_regions has
\* two entries for.
C26_Witness ==
    /\ last.op = "splits"
    /\ Exhausted
    /\ Cardinality({last.yielded[i] : i \in 1 .. Len(last.yielded)}) = 2
    /\ \E spacing \in Spacings, size \in Sizes :
          Cardinality(Keys(split_regions(last.prev, spacing, size))) = 2

\* ------------------------------------------------------------------ regions across remove

\* remove(p) at the leaf q of `before` gave `after`: for this spacing and size
\* every pane outside the subtree of q's parent keeps its region, and what
\* took the parent's place, q's sibling subtree, has the rectangle
\* split_regions recorded for the parent: its panes have the regions the
\* sibling subtree divides that rectangle into.
RegionsKeptByRemove(before, after, q, spacing, size) ==
    LET regions_before == pane_regions(before, spacing, size)
        splits_before  == split_regions(before, spacing, size)
        regions_after  == pane_regions(after, spacing, size)
        splits_after   == split_regions(after, spacing, size)
        par            == Parent(q)
    IN  /\ \A l \in LeafPaths(before) :
              ~IsPrefix(par, l) =>
                  Lookup(regions_after, NodeAt(before, l).pane)
                      = Lookup(regions_before, NodeAt(before, l).pane)
        /\ Effective(after, par, regions_after, splits_after)
              = Lookup(splits_before, NodeAt(before, par).id).rectangle
        /\ \A l \in LeafPaths(NodeAt(before, Sibling(q))) :
              LET in_sibling == compute_regions(
                                    NodeAt(before, Sibling(q)), spacing,
                                    Lookup(splits_before, NodeAt(before, par).id).rectangle,
                                    {})
                  p == NodeAt(NodeAt(before, Sibling(q)), l).pane
              IN  /\ Entries(regions_after, p) # {}
                  /\ Lookup(regions_after, p) = Lookup(in_sibling, p)

\* C27: after remove(p) has returned a pane, for every spacing and size the
\* region of every pane outside the subtree of p's parent Split is as before,
\* and the sibling subtree of p has the rectangle split_regions had recorded
\* for p's parent.
C27_RemoveKeepsRegions ==
    (last.op = "remove" /\ last.ret.some) =>
        \E q \in LeavesOf(last.prev, last.pane) :
            \A spacing \in Spacings, size \in Sizes :
                RegionsKeptByRemove(last.prev, tree, q, spacing, size)

\* A pane was removed whose parent was not the root, so that a pane outside
\* the parent's subtree had a region to keep.
C27_Witness ==
    /\ last.op = "remove"
    /\ last.ret.some
    /\ \E q \in LeavesOf(last.prev, last.pane) :
          /\ Len(q) = 2
          /\ \E l \in LeafPaths(last.prev) : ~IsPrefix(Parent(q), l)
          /\ \A spacing \in Spacings, size \in Sizes :
                RegionsKeptByRemove(last.prev, tree, q, spacing, size)

\* ------------------------------------------------------------------ regions across split

\* find(p) and split(id, axis, Pane(q)) on `before` gave `after`: for this
\* spacing and size every pane but p and q keeps its region, and p and q have
\* the two parts of p's old region, divided along axis at 0.5.
RegionsKeptBySplit(before, after, p, q, axis, spacing, size) ==
    LET regions_before == pane_regions(before, spacing, size)
        regions_after  == pane_regions(after, spacing, size)
        parts          == axis_split(axis, Lookup(regions_before, p), HalfRatio, spacing)
    IN  /\ Keys(regions_after) = Keys(regions_before) \cup {q}
        /\ \A r \in Keys(regions_before) \ {p} :
              Lookup(regions_after, r) = Lookup(regions_before, r)
        /\ Lookup(regions_after, p) = parts[1]
        /\ Lookup(regions_after, q) = parts[2]

\* C28: after find(p) and split(id, axis, Node::Pane(q)) on what it found,
\* id and q new to the tree, for every spacing and size the region of every
\* pane other than p and q is as before, and p and q have the two parts that
\* p's region of before divides into along axis with ratio 0.5 and the
\* spacing, p the first and q the second.
C28_SplitDividesRegion ==
    (last.op = "split" /\ last.via = "find") =>
        \A spacing \in Spacings, size \in Sizes :
            RegionsKeptBySplit(last.prev, tree, last.target, last.new_pane,
                               last.axis, spacing, size)

\* A pane of a tree of two panes was split, so that the other pane had a
\* region to keep, and the two halves differ.
C28_Witness ==
    /\ last.op = "split"
    /\ last.via = "find"
    /\ Cardinality(PanesOf(last.prev)) = 2
    /\ \E spacing \in Spacings, size \in Sizes :
          /\ RegionsKeptBySplit(last.prev, tree, last.target, last.new_pane,
                                last.axis, spacing, size)
          /\ Lookup(pane_regions(tree, spacing, size), last.target)
                # Lookup(pane_regions(tree, spacing, size), last.new_pane)

====
